---- MODULE Spec2Model ----
(***************************************************************************)
(* The DAG execution engine of cosmos/Workflow/models.py: the persisted    *)
(* Workflow / Stage / Task / TaskEdge / JobAttempt rows, the in-memory     *)
(* WorkflowManager (dag, dag_queue, queued_tasks), and the controller      *)
(* operations start, add_stage, Task.create, bulk_save_task_edges, run,    *)
(* _run_task, _reattempt_task, terminate and finished.                     *)
(*                                                                         *)
(* cosmos.Job.models (JobManager, JobAttempt) is not part of the source    *)
(* tree; its four operations are modelled from section 4.3 of the          *)
(* specification.                                                          *)
(***************************************************************************)
EXTENDS Integers, Sequences, FiniteSets, TLC

\* ------------------------------------------------------------------ bounds
MaxTasks == 3          \* tasks the DSL creates, over all sessions
MaxStages == 2         \* distinct stage names the DSL uses
MaxReattempts == 2     \* largest value of Workflow.max_reattempts tried
MaxSessions == 3       \* calls of Workflow.start
MaxReruns == 1         \* calls of Workflow.run on a handle that has already run
MaxTime == 2           \* largest reading of the clock
MaxCli == 1            \* invocations of the terminate subcommand of the CLI
MaxRepeats == 1        \* repeated calls of add_stage and of finished by a script
MaxTasksGC == 4        \* tasks of the workflows run with delete_intermediates

\* --------------------------------------------------------------- constants
NULL == 0              \* a null DateTimeField / IntegerField
WfId == 1              \* primary key of the workflow row
TagFree == 1           \* first tag value the DSL hands out

StageNames == 1..MaxStages
Kinds == {"plain", "NOOP", "succeed_on_failure"}
DryRunChoices == {FALSE}
DontDeleteChoices == {FALSE}
DeleteIntermediatesChoices == {FALSE}

VARIABLES
    wf,           \* the Workflow row (and whether it exists)
    stages,       \* Stage rows, keyed by name
    tasks,        \* Task rows, keyed by id
    edges,        \* TaskEdge rows: <<parent, child>>
    jobAttempts,  \* JobAttempt rows, keyed by id
    disk,         \* task id -> job_output_dir holds files
    mgr,          \* the WorkflowManager of the current run()
    pc,           \* where the controller process is
    now,          \* timezone.now()
    last,         \* the completion or signal the controller handled last, if any
    hist          \* counters: sessions, reruns, tasks created, DRM submits and kills,
                  \* CLI terminates and the exit status of the last one,
                  \* repeated add_stage calls, finished calls by the script

vars == <<wf, stages, tasks, edges, jobAttempts, disk, mgr, pc, now, last, hist>>

\* The whole state as one record, so that the steps of a handler compose.
St ==
    [wf |-> wf, stages |-> stages, tasks |-> tasks, edges |-> edges,
     jobAttempts |-> jobAttempts, disk |-> disk, mgr |-> mgr, pc |-> pc,
     hist |-> hist]

Set(s) ==
    /\ wf' = s.wf
    /\ stages' = s.stages
    /\ tasks' = s.tasks
    /\ edges' = s.edges
    /\ jobAttempts' = s.jobAttempts
    /\ disk' = s.disk
    /\ mgr' = s.mgr
    /\ pc' = s.pc
    /\ hist' = s.hist
    /\ now' = now

\* ----------------------------------------------------------------- helpers
SetMax(S) == IF S = {} THEN NULL ELSE CHOOSE x \in S : \A y \in S : y <= x
SetMin(S) == CHOOSE x \in S : \A y \in S : x <= y

\* f with key k bound to v (k may be new)
Put(f, k, v) == [x \in (DOMAIN f) \cup {k} |-> IF x = k THEN v ELSE f[x]]
\* f without the keys in K
Drop(f, K) == [x \in (DOMAIN f) \ K |-> f[x]]

NoWorkflow ==
    [exists |-> FALSE, id |-> NULL, finished_on |-> NULL, dry_run |-> FALSE,
     delete_intermediates |-> FALSE, max_reattempts |-> 3]

NoCompletion == [attempt |-> NULL, ok |-> FALSE]
\* SIGINT was handled last: no attempt, and ok set to tell it from NoCompletion
Interrupt == [attempt |-> NULL, ok |-> TRUE]
\* start was called last with delete_unsuccessful=False (resume mode)
ResumeMode == [attempt |-> -1, ok |-> FALSE]
\* start was called last with restart=True; ok is the answer to the prompt
RestartMode(confirmed) == [attempt |-> -2, ok |-> confirmed]

NoManager ==
    [dag_nodes |-> {}, dag_edges |-> {}, status |-> <<>>, cleared |-> <<>>,
     dag_queue |-> {}, queued_tasks |-> {}, terminate_on_fail |-> TRUE]

\* Workflow.tasks, Stage.tasks and friends
StageTasks(s, name) == {t \in DOMAIN s.tasks : s.tasks[t].stage = name}
WorkflowStages(s) == {n \in DOMAIN s.stages : s.stages[n].workflow = s.wf.id}
WorkflowTasks(s) == {t \in DOMAIN s.tasks : s.tasks[t].stage \in WorkflowStages(s)}
TaskAttempts(s, t) == {j \in DOMAIN s.jobAttempts : s.jobAttempts[j].task = t}

Init ==
    /\ wf = NoWorkflow
    /\ stages = <<>>
    /\ tasks = <<>>
    /\ edges = {}
    /\ jobAttempts = <<>>
    /\ disk = <<>>
    /\ mgr = NoManager
    /\ pc = "idle"
    /\ now = 1
    /\ last = NoCompletion
    /\ hist = [sessions |-> 0, reruns |-> 0, created |-> 0, submits |-> 0, kills |-> 0,
               cli |-> 0, cli_exit |-> 0, restaged |-> 0, finishes |-> 0]


\* An uncaught exception or sys.exit ended the controller: nothing more runs.
Dead(s) == s.pc \in {"crashed", "exited"}

\* ------------------------------------------------- persistence operations
\* Workflow.__create: a fresh row with a fresh JobManager.
Create(s, dry_run, delete_intermediates, max_reattempts) ==
    [s EXCEPT !.wf = [exists |-> TRUE, id |-> WfId, finished_on |-> NULL,
                      dry_run |-> dry_run,
                      delete_intermediates |-> delete_intermediates,
                      max_reattempts |-> max_reattempts]]

\* Workflow.add_stage: get_or_create by name, then order_in_workflow = max+1.
add_stage(s, name) ==
    LET orders == {s.stages[n].order_in_workflow : n \in WorkflowStages(s)} \ {NULL}
        order_in_workflow == IF orders = {} THEN 1 ELSE SetMax(orders) + 1
        created == name \notin DOMAIN s.stages
        b == IF created
             THEN [workflow |-> s.wf.id, order_in_workflow |-> NULL,
                   status |-> "no_attempt", successful |-> FALSE,
                   started_on |-> NULL, finished_on |-> NULL]
             ELSE s.stages[name]
    IN  [s EXCEPT !.stages = Put(s.stages, name,
                                 [b EXCEPT !.order_in_workflow = order_in_workflow]),
                  !.wf.finished_on = IF created THEN @ ELSE NULL]

\* Task.create: refuses a (stage, tags) pair that exists, else saves the row
\* with the next id and makes its output directories.
NewTask(stage, tags, kind, dont_delete) ==
    [stage |-> stage, tags |-> tags, status |-> "no_attempt",
     successful |-> FALSE, NOOP |-> (kind = "NOOP"),
     succeed_on_failure |-> (kind = "succeed_on_failure"),
     cleared_output_files |-> FALSE, dont_delete_output_files |-> dont_delete,
     unresolved |-> (kind = "unresolved"),
     tagged |-> FALSE,
     finished_on |-> NULL]

NextTaskId(s) == SetMax(DOMAIN s.tasks) + 1

TaskCreate(s, stage, tags, kind, dont_delete) ==
    IF \E t \in StageTasks(s, stage) : s.tasks[t].tags = tags
    THEN [s EXCEPT !.pc = "crashed"]
    ELSE [s EXCEPT !.tasks = Put(s.tasks, NextTaskId(s),
                                 [NewTask(stage, tags, kind, dont_delete)
                                     EXCEPT !.tagged = TRUE]),
                   !.disk = Put(s.disk, NextTaskId(s), FALSE)]

\* Workflow.bulk_save_tasks, first step: the batch gets the ids after the
\* largest one and is inserted as it is; nothing compares (stage, tags) with
\* the rows that exist or within the batch (unique_together is commented out).
BulkIds(s, batch) ==
    LET id_start == SetMax(DOMAIN s.tasks) + 1
    IN  id_start..(id_start + Len(batch) - 1)

bulk_create(s, batch) ==
    LET id_start == SetMax(DOMAIN s.tasks) + 1
        ids == BulkIds(s, batch)
    IN  [s EXCEPT !.tasks = [x \in (DOMAIN @) \cup ids |->
                               IF x \in ids THEN batch[x - id_start + 1] ELSE @[x]]]

\* second step: os.mkdir of the output directories of the first k tasks of
\* the batch (ids are those handed out before the insert).
bulk_mkdir(s, ids, k) ==
    LET made == {x \in ids : x < SetMin(ids) + k}
    IN  [s EXCEPT !.disk = [x \in (DOMAIN @) \cup made |->
                               IF x \in made THEN FALSE ELSE @[x]]]

\* third step: the TaskTag rows of the batch.
bulk_tag(s, ids) ==
    [s EXCEPT !.tasks = [x \in DOMAIN @ |->
                           IF x \in ids THEN [@[x] EXCEPT !.tagged = TRUE] ELSE @[x]]]

commit_on_success_NoRollback(before, after, raised) ==
    IF raised THEN [after EXCEPT !.pc = "crashed"] ELSE after

\* transaction.commit_on_success: an exception rolls the rows of the
\* transaction back and leaves the call; the file system is not part of it.
commit_on_success(before, after, raised) ==
    IF raised
    THEN [after EXCEPT !.tasks = before.tasks, !.pc = "crashed"]
    ELSE after

bulk_save_tasks(s, batch) ==
    LET ids == BulkIds(s, batch)
    IN  commit_on_success(s,
            bulk_tag(bulk_mkdir(bulk_create(s, batch), ids, Len(batch)), ids),
            FALSE)

\* bulk_save_tasks when a step raises: the insert (IntegrityError), the
\* os.mkdir of task k + 1 (OSError), or the TaskTag insert.
BulkSteps == {"insert", "mkdir", "tags"}

bulk_save_tasks_raising(s, batch, step, k) ==
    LET ids == BulkIds(s, batch)
    IN  commit_on_success(s,
            CASE step = "insert" -> s
              [] step = "mkdir"  -> bulk_mkdir(bulk_create(s, batch), ids, k)
              [] OTHER           -> bulk_mkdir(bulk_create(s, batch), ids, Len(batch)),
            TRUE)

\* Workflow.bulk_save_task_edges
bulk_save_task_edges(s, es) == [s EXCEPT !.edges = @ \cup es]

\* Workflow.bulk_delete_tasks: the rows that point at the tasks go with them
\* (explicitly, and by the cascade of tasks.delete()); the TaskEdge filter
\* compares parent and child with the Workflow, that is with its primary key.
bulk_delete_tasks(s, ts) ==
    [s EXCEPT
       !.jobAttempts = Drop(@, {j \in DOMAIN @ : @[j].task \in ts}),
       !.edges = {e \in @ : /\ e[1] # s.wf.id /\ e[2] # s.wf.id
                            /\ e[1] \notin ts /\ e[2] \notin ts},
       !.tasks = Drop(@, ts),
       !.disk = Drop(@, ts)]

\* Stage.delete
StageDelete(s, name) ==
    LET s1 == bulk_delete_tasks(s, StageTasks(s, name))
    IN  [s1 EXCEPT !.stages = Drop(@, {name})]

RECURSIVE StageDeleteAll(_, _)
StageDeleteAll(s, names) ==
    IF names = {} THEN s
    ELSE LET n == SetMin(names)
         IN  StageDeleteAll(StageDelete(s, n), names \ {n})

\* Workflow.delete: the JobManager and its attempts, the tasks with their
\* rows and directories, the stages, then the workflow row itself.
WorkflowDelete(s) ==
    LET s1 == [s EXCEPT !.jobAttempts = <<>>]
        s2 == bulk_delete_tasks(s1, WorkflowTasks(s1))
    IN  [s2 EXCEPT !.stages = Drop(@, WorkflowStages(s2)),
                   !.wf = NoWorkflow]

\* Workflow.__restart that creates the new row over the old descendants
Restart_KeepsRows(s, dry_run, delete_intermediates, max_reattempts) ==
    LET wf_id == IF s.wf.exists THEN s.wf.id ELSE NULL
        s2 == Create(s, dry_run, delete_intermediates, max_reattempts)
    IN  IF wf_id = NULL THEN s2 ELSE [s2 EXCEPT !.wf.id = wf_id]

\* Workflow.__restart, past the prompt: delete the old workflow, create the
\* new one under the old id (_wf_id).
Restart(s, dry_run, delete_intermediates, max_reattempts) ==
    LET wf_id == IF s.wf.exists THEN s.wf.id ELSE NULL
        s1 == IF s.wf.exists THEN WorkflowDelete(s) ELSE s
        s2 == Create(s1, dry_run, delete_intermediates, max_reattempts)
    IN  IF wf_id = NULL THEN s2 ELSE [s2 EXCEPT !.wf.id = wf_id]

\* Workflow.__resume
Resume(s, dry_run, delete_intermediates) ==
    [s EXCEPT !.wf.dry_run = dry_run,
              !.wf.finished_on = NULL,
              !.wf.delete_intermediates = delete_intermediates,
              !.stages = [n \in DOMAIN @ |->
                            IF @[n].workflow = s.wf.id
                            THEN [@[n] EXCEPT !.order_in_workflow = NULL]
                            ELSE @[n]]]

\* Workflow.__reload without the deletion of the unsuccessful tasks
Reload_KeepsTasks(s, dry_run, delete_intermediates, delete_unsuccessful_stages) ==
    LET s1 == Resume(s, dry_run, delete_intermediates)
        doomed == IF delete_unsuccessful_stages
                  THEN {n \in WorkflowStages(s1) : ~s1.stages[n].successful}
                  ELSE {n \in WorkflowStages(s1) :
                          ~\E t \in StageTasks(s1, n) : s1.tasks[t].successful}
    IN  StageDeleteAll(s1, doomed)

\* Workflow.__reload
Reload(s, dry_run, delete_intermediates, delete_unsuccessful_stages) ==
    LET s1 == Resume(s, dry_run, delete_intermediates)
        doomed == IF delete_unsuccessful_stages
                  THEN {n \in WorkflowStages(s1) : ~s1.stages[n].successful}
                  ELSE {n \in WorkflowStages(s1) :
                          ~\E t \in StageTasks(s1, n) : s1.tasks[t].successful}
        s2 == StageDeleteAll(s1, doomed)
        utasks == {t \in WorkflowTasks(s2) : ~s2.tasks[t].successful}
        s3 == bulk_delete_tasks(s2, utasks)
    IN  IF utasks = {} THEN s2
        ELSE [s3 EXCEPT !.stages = [n \in DOMAIN @ |->
                IF /\ @[n].workflow = s.wf.id
                   /\ ~@[n].successful
                   /\ \E t \in StageTasks(s3, n) : s3.tasks[t].successful
                THEN [@[n] EXCEPT !.successful = FALSE, !.status = "in_progress",
                                  !.finished_on = NULL]
                ELSE @[n]]]

\* ------------------------------------------------- JobManager (section 4.3)
NextAttemptId(s) == SetMax(DOMAIN s.jobAttempts) + 1

\* JobManager.add_jobAttempt: a new attempt, not yet submitted.
add_jobAttempt(s, t) ==
    [s EXCEPT !.jobAttempts = Put(@, NextAttemptId(s),
        [task |-> t, queue_status |-> "not_submitted", successful |-> FALSE,
         finished_on |-> NULL])]

\* JobManager.submit_job: hands the attempt to the DRM.
submit_job(s, j) ==
    [s EXCEPT !.jobAttempts[j].queue_status = "queued",
              !.hist.submits = @ + 1]

\* JobManager.terminate_jobAttempt: DRM kill of a job that is still queued.
terminate_jobAttempt(s, j) ==
    IF s.jobAttempts[j].queue_status = "queued"
    THEN [s EXCEPT !.hist.kills = @ + 1]
    ELSE s

\* JobManager.jobAttempts.filter(queue_status='queued')
QueuedAttempts(s) ==
    {j \in DOMAIN s.jobAttempts : s.jobAttempts[j].queue_status = "queued"}

\* What yield_all_queued_jobs hands over: the attempt, completed, with the
\* DRM's verdict; the job has written into the task's job_output_dir.
Yielded(s, j, ok) ==
    [s EXCEPT !.jobAttempts[j].queue_status = "completed",
              !.jobAttempts[j].successful = ok,
              !.jobAttempts[j].finished_on = now,
              !.disk[s.jobAttempts[j].task] = TRUE]

\* ------------------------------------------------------------ Stage, Task
\* Stage.set_status
StageSetStatus(s, name, new_status) ==
    [s EXCEPT !.stages[name].status = new_status,
              !.stages[name].successful = IF new_status = "successful" THEN TRUE ELSE @]

\* Stage._are_all_tasks_done
are_all_tasks_done(s, name) ==
    \A t \in StageTasks(s, name) : s.tasks[t].status \in {"successful", "failed"}

\* Stage._has_finished
StageHasFinished(s, name) ==
    LET num_tasks == Cardinality(StageTasks(s, name))
        num_tasks_successful ==
            Cardinality({t \in StageTasks(s, name) : s.tasks[t].successful})
        num_tasks_failed ==
            Cardinality({t \in StageTasks(s, name) : s.tasks[t].status = "failed"})
    IN  IF num_tasks_successful = num_tasks
        THEN [StageSetStatus(s, name, "successful") EXCEPT
                !.stages[name].finished_on = now]
        ELSE IF num_tasks_failed + num_tasks_successful = num_tasks
        THEN [StageSetStatus(s, name, "failed") EXCEPT
                !.stages[name].finished_on = now]
        ELSE [s EXCEPT !.pc = "crashed"]

\* Task.set_status
TaskSetStatus(s, t, new_status) ==
    [s EXCEPT !.tasks[t].status = new_status,
              !.tasks[t].successful = IF new_status = "successful" THEN TRUE ELSE @]

\* Task._has_finished without the test of the attempts: every finished task
\* is marked successful.
TaskHasFinished_AlwaysSuccessful(s, t, noop) ==
    LET s1 == TaskSetStatus(s, t, "successful")
        name == s.tasks[t].stage
    IN  IF are_all_tasks_done(s1, name) THEN StageHasFinished(s1, name) ELSE s1

\* Task._has_finished(jobAttempt); noop stands for the argument 'NOOP'.
\* finished_on is set on the object after the save and is never written.
TaskHasFinished(s, t, noop) ==
    LET s1 == IF \/ noop
                 \/ s.tasks[t].succeed_on_failure
                 \/ \E j \in TaskAttempts(s, t) : s.jobAttempts[j].successful
              THEN TaskSetStatus(s, t, "successful")
              ELSE TaskSetStatus(s, t, "failed")
        name == s.tasks[t].stage
    IN  IF are_all_tasks_done(s1, name) THEN StageHasFinished(s1, name) ELSE s1

\* Task.clear_job_output_dir
clear_job_output_dir(s, t) ==
    [s EXCEPT !.disk[t] = IF s.tasks[t].dont_delete_output_files THEN @ ELSE FALSE,
              !.tasks[t].cleared_output_files = TRUE]

\* ------------------------------------------------------------- controller
\* _run_task without the early return for NOOP tasks
run_task_NoNoopReturn(s, t) ==
    LET name == s.tasks[t].stage
        s1 == IF s.stages[name].status \in {"no_attempt", "failed"}
              THEN [StageSetStatus(s, name, "in_progress") EXCEPT
                      !.stages[name].started_on =
                          IF s.stages[name].status = "no_attempt" THEN now ELSE @]
              ELSE s
        s2 == TaskSetStatus(s1, t, "in_progress")
        j == NextAttemptId(s2)
        s3 == add_jobAttempt(s2, t)
    IN  IF s.wf.dry_run THEN s3 ELSE submit_job(s3, j)

\* _run_task that sets the stage in_progress whatever its status
run_task_AnyStatus(s, t) ==
    IF s.tasks[t].NOOP THEN s
    ELSE
      LET name == s.tasks[t].stage
          s1 == [StageSetStatus(s, name, "in_progress") EXCEPT
                   !.stages[name].started_on =
                       IF s.stages[name].status = "no_attempt" THEN now ELSE @]
          s2 == TaskSetStatus(s1, t, "in_progress")
          j == NextAttemptId(s2)
          s3 == add_jobAttempt(s2, t)
      IN  IF s.wf.dry_run THEN s3 ELSE submit_job(s3, j)

run_task_IgnoresDryRun(s, t) ==
    IF s.tasks[t].NOOP THEN s
    ELSE
      LET name == s.tasks[t].stage
          s1 == IF s.stages[name].status \in {"no_attempt", "failed"}
                THEN [StageSetStatus(s, name, "in_progress") EXCEPT
                        !.stages[name].started_on =
                            IF s.stages[name].status = "no_attempt" THEN now ELSE @]
                ELSE s
          s2 == TaskSetStatus(s1, t, "in_progress")
          j == NextAttemptId(s2)
          s3 == add_jobAttempt(s2, t)
      IN  IF s.tasks[t].unresolved THEN [s2 EXCEPT !.pc = "crashed"]
          ELSE submit_job(s3, j)

\* Workflow._run_task
run_task(s, t) ==
    IF s.tasks[t].NOOP THEN s
    ELSE
      LET name == s.tasks[t].stage
          s1 == IF s.stages[name].status \in {"no_attempt", "failed"}
                THEN [StageSetStatus(s, name, "in_progress") EXCEPT
                        !.stages[name].started_on =
                            IF s.stages[name].status = "no_attempt" THEN now ELSE @]
                ELSE s
          s2 == TaskSetStatus(s1, t, "in_progress")
          j == NextAttemptId(s2)
          s3 == add_jobAttempt(s2, t)
      IN  IF s.tasks[t].unresolved THEN [s2 EXCEPT !.pc = "crashed"]
          ELSE IF s.wf.dry_run THEN s3 ELSE submit_job(s3, j)

\* Workflow.finished
finished(s) == [s EXCEPT !.wf.finished_on = now]

RECURSIVE KillAll(_, _)
KillAll(s, js) ==
    IF js = {} THEN s
    ELSE LET j == SetMin(js)
         IN  KillAll(terminate_jobAttempt(s, j), js \ {j})

\* terminate with a stage filter that takes every stage, successful or not
terminate_EveryStage(s) ==
    LET queued == QueuedAttempts(s)
        ts == {s.jobAttempts[j].task : j \in queued} \cap DOMAIN s.tasks
        s1 == KillAll(s, queued)
        s2 == [s1 EXCEPT !.tasks = [t \in DOMAIN @ |->
                 IF t \in ts
                 THEN [@[t] EXCEPT !.status = "failed", !.finished_on = now]
                 ELSE @[t]]]
        s3 == [s2 EXCEPT !.stages = [n \in DOMAIN @ |->
                 [@[n] EXCEPT !.status = "failed", !.finished_on = now]]]
        s4 == [s3 EXCEPT !.jobAttempts = [j \in DOMAIN @ |->
                 IF j \in queued
                 THEN [@[j] EXCEPT !.queue_status = "completed", !.finished_on = now]
                 ELSE @[j]]]
    IN  [finished(s4) EXCEPT !.pc = "exited", !.mgr = NoManager]

\* terminate that leaves the tasks of the killed attempts as they are
terminate_rows_NoTaskUpdate(s) ==
    LET queued == QueuedAttempts(s)
        ts == {s.jobAttempts[j].task : j \in queued} \cap DOMAIN s.tasks
        s1 == KillAll(s, queued)
        s3 == [s1 EXCEPT !.stages = [n \in DOMAIN @ |->
                 IF (StageTasks(s, n) \cap ts # {}) \/ ~@[n].successful
                 THEN [@[n] EXCEPT !.status = "failed", !.finished_on = now]
                 ELSE @[n]]]
        s4 == [s3 EXCEPT !.jobAttempts = [j \in DOMAIN @ |->
                 IF j \in queued
                 THEN [@[j] EXCEPT !.queue_status = "completed", !.finished_on = now]
                 ELSE @[j]]]
    IN  finished(s4)

\* terminate whose stage filter lacks Q(successful=False)
terminate_rows_HitStagesOnly(s) ==
    LET queued == QueuedAttempts(s)
        ts == {s.jobAttempts[j].task : j \in queued} \cap DOMAIN s.tasks
        s1 == KillAll(s, queued)
        s2 == [s1 EXCEPT !.tasks = [t \in DOMAIN @ |->
                 IF t \in ts
                 THEN [@[t] EXCEPT !.status = "failed", !.finished_on = now]
                 ELSE @[t]]]
        s3 == [s2 EXCEPT !.stages = [n \in DOMAIN @ |->
                 IF StageTasks(s, n) \cap ts # {}
                 THEN [@[n] EXCEPT !.status = "failed", !.finished_on = now]
                 ELSE @[n]]]
        s4 == [s3 EXCEPT !.jobAttempts = [j \in DOMAIN @ |->
                 IF j \in queued
                 THEN [@[j] EXCEPT !.queue_status = "completed", !.finished_on = now]
                 ELSE @[j]]]
    IN  finished(s4)

\* terminate that marks the attempts completed before it sends the kills
terminate_rows_KillLast(s) ==
    LET queued == QueuedAttempts(s)
        ts == {s.jobAttempts[j].task : j \in queued} \cap DOMAIN s.tasks
        s2 == [s EXCEPT !.tasks = [t \in DOMAIN @ |->
                 IF t \in ts
                 THEN [@[t] EXCEPT !.status = "failed", !.finished_on = now]
                 ELSE @[t]]]
        s3 == [s2 EXCEPT !.stages = [n \in DOMAIN @ |->
                 IF (StageTasks(s, n) \cap ts # {}) \/ ~@[n].successful
                 THEN [@[n] EXCEPT !.status = "failed", !.finished_on = now]
                 ELSE @[n]]]
        s4 == [s3 EXCEPT !.jobAttempts = [j \in DOMAIN @ |->
                 IF j \in queued
                 THEN [@[j] EXCEPT !.queue_status = "completed", !.finished_on = now]
                 ELSE @[j]]]
    IN  finished(KillAll(s4, queued))

\* Workflow.terminate up to sys.exit: the rows it writes
terminate_rows(s) ==
    LET queued == QueuedAttempts(s)
        ts == {s.jobAttempts[j].task : j \in queued} \cap DOMAIN s.tasks
        s1 == KillAll(s, queued)
        s2 == [s1 EXCEPT !.tasks = [t \in DOMAIN @ |->
                 IF t \in ts
                 THEN [@[t] EXCEPT !.status = "failed", !.finished_on = now]
                 ELSE @[t]]]
        s3 == [s2 EXCEPT !.stages = [n \in DOMAIN @ |->
                 IF (StageTasks(s, n) \cap ts # {}) \/ ~@[n].successful
                 THEN [@[n] EXCEPT !.status = "failed", !.finished_on = now]
                 ELSE @[n]]]
        s4 == [s3 EXCEPT !.jobAttempts = [j \in DOMAIN @ |->
                 IF j \in queued
                 THEN [@[j] EXCEPT !.queue_status = "completed", !.finished_on = now]
                 ELSE @[j]]]
    IN  finished(s4)

\* Workflow.terminate in the controller process: sys.exit(1) ends it
terminate(s) == [terminate_rows(s) EXCEPT !.pc = "exited", !.mgr = NoManager]

\* -------------------------------------------------------- WorkflowManager
\* WorkflowManager.createDiGraph
createDiGraph(s) ==
    LET es == {e \in s.edges : e[1] \in WorkflowTasks(s)}
        ns == WorkflowTasks(s)
    IN  [dag_nodes |-> ns \cup {e[1] : e \in es} \cup {e[2] : e \in es},
         dag_edges |-> es,
         status |-> [t \in ns |-> s.tasks[t].status],
         cleared |-> [t \in ns |-> s.tasks[t].cleared_output_files]]

\* WorkflowManager.__init__ with dag_queue a plain copy of the dag
NewManager_FullQueue(s, terminate_on_fail) ==
    LET dag == createDiGraph(s)
    IN  [dag_nodes |-> dag.dag_nodes, dag_edges |-> dag.dag_edges,
         status |-> dag.status, cleared |-> dag.cleared,
         dag_queue |-> dag.dag_nodes,
         queued_tasks |-> {},
         terminate_on_fail |-> terminate_on_fail]

\* WorkflowManager.__init__
NewManager(s, terminate_on_fail) ==
    LET dag == createDiGraph(s)
    IN  [dag_nodes |-> dag.dag_nodes, dag_edges |-> dag.dag_edges,
         status |-> dag.status, cleared |-> dag.cleared,
         dag_queue |-> dag.dag_nodes \ {t \in WorkflowTasks(s) : s.tasks[t].successful},
         queued_tasks |-> {},
         terminate_on_fail |-> terminate_on_fail]

\* in-degree of node n in dag_queue
InDegree(m, n) ==
    Cardinality({e \in m.dag_edges : e[2] = n /\ e[1] \in m.dag_queue})

\* get_ready_tasks without the in-degree test
get_ready_tasks_NoDegree(s) ==
    {n \in s.mgr.dag_queue :
        /\ n \notin s.mgr.queued_tasks
        /\ n \in DOMAIN s.tasks}

\* get_ready_tasks with the in-degree taken in dag, not in dag_queue
get_ready_tasks_WholeDag(s) ==
    {n \in s.mgr.dag_queue :
        /\ ~\E e \in s.mgr.dag_edges : e[2] = n
        /\ n \notin s.mgr.queued_tasks
        /\ n \in DOMAIN s.tasks}

\* WorkflowManager.get_ready_tasks
get_ready_tasks(s) ==
    {n \in s.mgr.dag_queue :
        /\ InDegree(s.mgr, n) = 0
        /\ n \notin s.mgr.queued_tasks
        /\ n \in DOMAIN s.tasks}

\* complete_task that leaves the node in dag_queue
complete_task_KeepsNode(s, t) ==
    IF Dead(s) THEN s
    ELSE IF t \notin s.mgr.dag_queue THEN [s EXCEPT !.pc = "crashed"]
    ELSE [s EXCEPT !.mgr.status[t] = s.tasks[t].status]

\* WorkflowManager.complete_task
complete_task(s, t) ==
    IF Dead(s) THEN s
    ELSE IF t \notin s.mgr.dag_queue THEN [s EXCEPT !.pc = "crashed"]
    ELSE [s EXCEPT !.mgr.dag_queue = @ \ {t},
                   !.mgr.status[t] = s.tasks[t].status]

\* is_task_intermediate without the test for a parent
is_task_intermediate_NoParentTest(m, t) ==
    LET successors == {e[2] : e \in {x \in m.dag_edges : x[1] = t}}
    IN  /\ successors # {}
        /\ \E c \in successors : m.status[c] = "successful"

\* WorkflowManager.is_task_intermediate
is_task_intermediate(m, t) ==
    LET successors == {e[2] : e \in {x \in m.dag_edges : x[1] = t}}
        predecessors == {e[1] : e \in {x \in m.dag_edges : x[2] = t}}
    IN  /\ predecessors # {}
        /\ successors # {}
        /\ \E c \in successors : m.status[c] = "successful"

RECURSIVE ClearAll(_, _)
ClearAll(s, ts) ==
    IF ts = {} THEN s
    ELSE LET t == SetMin(ts)
             s1 == clear_job_output_dir(s, t)
         IN  ClearAll([s1 EXCEPT !.mgr.cleared[t] = TRUE], ts \ {t})

\* WorkflowManager.clear_intermediate_tasks
clear_intermediate_tasks(s) ==
    LET nodes_not_cleared == {t \in DOMAIN s.mgr.cleared : ~s.mgr.cleared[t]}
        intermediate_tasks ==
            {t \in nodes_not_cleared : is_task_intermediate(s.mgr, t)}
    IN  ClearAll(s, intermediate_tasks \cap WorkflowTasks(s))

\* the loop of WorkflowManager.run_ready_tasks: queue_task, then _run_task
RECURSIVE DispatchAll(_, _)
DispatchAll(s, ts) ==
    IF ts = {} \/ Dead(s) THEN s
    ELSE LET t == SetMin(ts)
             s1 == [s EXCEPT !.mgr.queued_tasks = @ \cup {t}]
         IN  DispatchAll(run_task(s1, t), ts \ {t})

\* WorkflowManager.run_ready_tasks (the tasks it returns are ready_tasks)
mgr_run_ready_tasks(s, ready_tasks) ==
    LET s1 == DispatchAll(s, ready_tasks)
    IN  IF s.wf.delete_intermediates /\ ~Dead(s1)
        THEN clear_intermediate_tasks(s1) ELSE s1

\* the NOOP loop of run.run_ready_tasks
RECURSIVE FinishNoops(_, _)
FinishNoops(s, ts) ==
    IF ts = {} \/ Dead(s) THEN s
    ELSE LET t == SetMin(ts)
         IN  FinishNoops(complete_task(TaskHasFinished(s, t, TRUE), t), ts \ {t})

\* run_ready_tasks, the closure inside Workflow.run
RECURSIVE run_ready_tasks(_)
run_ready_tasks(s) ==
    IF Dead(s) THEN s
    ELSE LET submitted_tasks == get_ready_tasks(s)
             s1 == mgr_run_ready_tasks(s, submitted_tasks)
             s2 == FinishNoops(s1, {t \in submitted_tasks : s.tasks[t].NOOP})
         IN  IF submitted_tasks # {} THEN run_ready_tasks(s2) ELSE s2

\* the retry test with <= for <
WillReattempt_Inclusive(s, t) ==
    /\ ~s.tasks[t].successful
    /\ Cardinality(TaskAttempts(s, t)) <= s.wf.max_reattempts

\* the test of Workflow._reattempt_task: TRUE when another attempt goes out
WillReattempt(s, t) ==
    /\ ~s.tasks[t].successful
    /\ Cardinality(TaskAttempts(s, t)) < s.wf.max_reattempts

\* _reattempt_task that clears the output directory and starts nothing
reattempt_task_NoRun(s, t) ==
    IF WillReattempt(s, t)
    THEN [s EXCEPT !.disk[t] = FALSE]
    ELSE s

\* _reattempt_task that puts the failed attempt back in the queue instead of
\* creating a new one, so that the count of attempts never grows
reattempt_task_Requeue(s, t) ==
    IF WillReattempt(s, t)
    THEN [s EXCEPT !.disk[t] = FALSE,
                   !.jobAttempts[SetMax(TaskAttempts(s, t))].queue_status = "queued"]
    ELSE s

\* Workflow._reattempt_task
reattempt_task(s, t) ==
    IF WillReattempt(s, t)
    THEN run_task([s EXCEPT !.disk[t] = FALSE], t)
    ELSE s

\* the loop body without the test of succeed_on_failure
Completion_NoSucceedOnFailure(s, j) ==
    LET t == s.jobAttempts[j].task
    IN  IF s.jobAttempts[j].successful
        THEN run_ready_tasks(complete_task(TaskHasFinished(s, t, FALSE), t))
        ELSE IF WillReattempt(s, t) THEN reattempt_task(s, t)
        ELSE LET s1 == TaskHasFinished(reattempt_task(s, t), t, FALSE)
             IN  IF Dead(s1) THEN s1
                 ELSE IF s.mgr.terminate_on_fail THEN terminate(s1)
                 ELSE s1

Completion_CompletesFailed(s, j) ==
    LET t == s.jobAttempts[j].task
    IN  IF s.jobAttempts[j].successful \/ s.tasks[t].succeed_on_failure
        THEN run_ready_tasks(complete_task(TaskHasFinished(s, t, FALSE), t))
        ELSE IF WillReattempt(s, t) THEN reattempt_task(s, t)
        ELSE LET s1 == TaskHasFinished(reattempt_task(s, t), t, FALSE)
             IN  IF Dead(s1) THEN s1
                 ELSE IF s.mgr.terminate_on_fail THEN terminate(s1)
                 ELSE run_ready_tasks(complete_task(s1, t))

Completion_DequeuesFailed(s, j) ==
    LET t == s.jobAttempts[j].task
    IN  IF s.jobAttempts[j].successful \/ s.tasks[t].succeed_on_failure
        THEN run_ready_tasks(complete_task(TaskHasFinished(s, t, FALSE), t))
        ELSE IF WillReattempt(s, t) THEN reattempt_task(s, t)
        ELSE LET s1 == TaskHasFinished(reattempt_task(s, t), t, FALSE)
             IN  IF Dead(s1) THEN s1
                 ELSE IF s.mgr.terminate_on_fail THEN terminate(s1)
                 ELSE complete_task(s1, t)

\* the body of the loop of Workflow.run for one yielded attempt
Completion(s, j) ==
    LET t == s.jobAttempts[j].task
    IN  IF s.jobAttempts[j].successful \/ s.tasks[t].succeed_on_failure
        THEN run_ready_tasks(complete_task(TaskHasFinished(s, t, FALSE), t))
        ELSE IF WillReattempt(s, t) THEN reattempt_task(s, t)
        ELSE LET s1 == TaskHasFinished(reattempt_task(s, t), t, FALSE)
             IN  IF Dead(s1) THEN s1
                 ELSE IF s.mgr.terminate_on_fail THEN terminate(s1)
                 ELSE s1

\* the end of Workflow.run, once the stream of completions has drained
EndOfRun(s) ==
    IF Dead(s) \/ QueuedAttempts(s) # {} THEN s
    ELSE [finished(s) EXCEPT !.pc = "returned", !.mgr = NoManager]

\* ----------------------------------------------------------------- actions
NoProcess == pc \in {"idle", "returned", "exited", "crashed"}

NewSession(s) == [s EXCEPT !.pc = "started", !.mgr = NoManager,
                           !.hist.sessions = @ + 1]

\* Workflow.start on a new name; max_reattempts is the field of the new row.
StartCreate(dry_run, delete_intermediates, max_reattempts) ==
    /\ NoProcess
    /\ ~wf.exists
    /\ hist.sessions < MaxSessions
    /\ Set(NewSession(Create(St, dry_run, delete_intermediates, max_reattempts)))
    /\ last' = NoCompletion

\* Workflow.start(delete_unsuccessful=True) on an existing name
StartReload(dry_run, delete_intermediates, delete_unsuccessful_stages) ==
    /\ NoProcess
    /\ wf.exists
    /\ hist.sessions < MaxSessions
    /\ Set(NewSession(Reload(St, dry_run, delete_intermediates,
                             delete_unsuccessful_stages)))
    /\ last' = NoCompletion

\* Workflow.start(delete_unsuccessful=False) on an existing name: __resume is
\* called with prompt_confirm, a keyword it does not take, and raises.
StartResume ==
    /\ NoProcess
    /\ wf.exists
    /\ hist.sessions < MaxSessions
    /\ Set([St EXCEPT !.pc = "crashed", !.mgr = NoManager,
                      !.hist.sessions = @ + 1])
    /\ last' = ResumeMode

\* Workflow.start(delete_unsuccessful=False) on a new name: start looks for
\* the name itself and, not finding it, goes to __create.
StartResumeNew(dry_run, delete_intermediates, max_reattempts) ==
    /\ NoProcess
    /\ ~wf.exists
    /\ hist.sessions < MaxSessions
    /\ Set(NewSession(Create(St, dry_run, delete_intermediates, max_reattempts)))
    /\ last' = ResumeMode

\* The DSL registers its stages in order, once per session, and fills each
\* stage before it registers the next.
AddStage(name) ==
    /\ pc = "started"
    /\ name \in DOMAIN stages => stages[name].order_in_workflow = NULL
    /\ \A n \in StageNames : n < name =>
          /\ n \in DOMAIN stages
          /\ stages[n].order_in_workflow # NULL
          /\ StageTasks(St, n) # {}
    /\ Set(add_stage(St, name))
    /\ last' = NoCompletion

\* The tag the DSL gives a new task of the stage: one not in use there.
FreshTag(s, stage) ==
    SetMin((TagFree..(TagFree + MaxTasks)) \ {s.tasks[t].tags : t \in StageTasks(s, stage)})

\* The DSL hands over one task and the edges from its parents.
AddTaskUpTo(limit, stage, kind, parents, dont_delete) ==
    /\ pc = "started"
    /\ stage \in DOMAIN stages
    /\ stages[stage].order_in_workflow # NULL
    /\ \A n \in DOMAIN stages :
          stages[n].order_in_workflow <= stages[stage].order_in_workflow
    /\ hist.created < limit
    /\ LET t == NextTaskId(St)
           s1 == TaskCreate(St, stage, FreshTag(St, stage), kind, dont_delete)
           s2 == bulk_save_task_edges(s1, {<<p, t>> : p \in parents})
       IN  Set([s2 EXCEPT !.hist.created = @ + 1])
    /\ last' = NoCompletion

AddTask(stage, kind, parents, dont_delete) ==
    AddTaskUpTo(MaxTasks, stage, kind, parents, dont_delete)

\* Workflow.run, up to its first wait on the stream of completions
run(s, terminate_on_fail) ==
    LET s1 == [s EXCEPT !.mgr = NewManager(s, terminate_on_fail),
                        !.pc = "waiting"]
    IN  EndOfRun(run_ready_tasks(s1))

\* the script calls run once the DSL has handed over the DAG
Run(terminate_on_fail) ==
    /\ pc = "started"
    /\ Set(run(St, terminate_on_fail))
    /\ last' = NoCompletion

\* run called again on the same handle after it has returned
Rerun(terminate_on_fail) ==
    /\ pc = "returned"
    /\ hist.reruns < MaxReruns
    /\ Set(run([St EXCEPT !.hist.reruns = @ + 1], terminate_on_fail))
    /\ last' = NoCompletion

\* The stream yields attempt j, which the DRM reports successful or not
Complete(j, ok) ==
    /\ pc = "waiting"
    /\ j \in QueuedAttempts(St)
    /\ Set(EndOfRun(Completion(Yielded(St, j, ok), j)))
    /\ last' = [attempt |-> j, ok |-> ok]

\* SIGINT while the DSL builds the DAG or while run waits: the handler
\* installed by start calls terminate
SigInt ==
    /\ pc \in {"started", "waiting"}
    /\ Set(terminate(St))
    /\ last' = Interrupt

\* Workflow.start(restart=True): helpers.confirm asks before an existing
\* workflow is deleted; on "no" the process prints "Exiting." and exits.
StartRestart(confirmed, dry_run, delete_intermediates, max_reattempts) ==
    /\ NoProcess
    /\ hist.sessions < MaxSessions
    /\ IF wf.exists /\ ~confirmed
       THEN Set([St EXCEPT !.pc = "exited", !.mgr = NoManager,
                           !.hist.sessions = @ + 1])
       ELSE Set(NewSession(Restart(St, dry_run, delete_intermediates,
                                   max_reattempts)))
    /\ last' = RestartMode(confirmed)

Next ==
    \/ \E d \in DryRunChoices, g \in DeleteIntermediatesChoices,
          m \in 1..MaxReattempts : StartCreate(d, g, m)
    \/ \E d \in DryRunChoices, g \in DeleteIntermediatesChoices, u \in BOOLEAN :
          StartReload(d, g, u)
    \/ StartResume
    \/ \E d \in DryRunChoices, g \in DeleteIntermediatesChoices,
          m \in 1..MaxReattempts : StartResumeNew(d, g, m)
    \/ \E n \in StageNames : AddStage(n)
    \/ \E n \in StageNames, k \in Kinds, P \in SUBSET DOMAIN tasks,
          dd \in DontDeleteChoices : AddTask(n, k, P, dd)
    \/ \E f \in BOOLEAN : Run(f)
    \/ \E j \in DOMAIN jobAttempts, ok \in BOOLEAN : Complete(j, ok)
    \/ SigInt

Spec == Init /\ [][Next]_vars

\* the readings of the clock that the rows hold
Stamps ==
    {wf.finished_on}
        \cup {stages[n].started_on : n \in DOMAIN stages}
        \cup {stages[n].finished_on : n \in DOMAIN stages}
        \cup {tasks[t].finished_on : t \in DOMAIN tasks}
        \cup {jobAttempts[j].finished_on : j \in DOMAIN jobAttempts}

\* timezone.now() moves on; a reading that no row holds yet stands for every
\* later one, so the clock is advanced only past readings that were stamped
Tick ==
    /\ now < MaxTime
    /\ now \in Stamps
    /\ now' = now + 1
    /\ UNCHANGED <<wf, stages, tasks, edges, jobAttempts, disk, mgr, pc, last, hist>>

\* cli.terminate: another process loads the workflow by id and calls
\* terminate on it; sys.exit(1) ends that process, not the controller.
CliTerminate ==
    /\ wf.exists
    /\ hist.cli < MaxCli
    /\ Set([terminate_rows(St) EXCEPT !.hist.cli = @ + 1, !.hist.cli_exit = 1])
    /\ last' = NoCompletion

\* the stream of completions ends because no attempt is queued any more
\* (another process marked them completed): run goes on to finished
Drained ==
    /\ pc = "waiting"
    /\ QueuedAttempts(St) = {}
    /\ Set(EndOfRun(St))
    /\ last' = NoCompletion

\* the script calls add_stage again for a stage it registered in this session
AddStageAgain(name) ==
    /\ pc = "started"
    /\ name \in DOMAIN stages
    /\ stages[name].order_in_workflow # NULL
    /\ hist.restaged < MaxRepeats
    /\ Set(add_stage([St EXCEPT !.hist.restaged = @ + 1], name))
    /\ last' = NoCompletion

\* the script calls finished after run has returned
CallFinished ==
    /\ pc = "returned"
    /\ hist.finishes < MaxRepeats
    /\ Set(finished([St EXCEPT !.hist.finishes = @ + 1]))
    /\ last' = NoCompletion

\* terminate, finished and add_stage do not read succeed_on_failure
KindsFirst == {"plain", "NOOP"}

\* one session of a new workflow
NextFirst ==
    \/ \E d \in DryRunChoices, g \in DeleteIntermediatesChoices,
          m \in 1..MaxReattempts : StartCreate(d, g, m)
    \/ \E n \in StageNames : AddStage(n)
    \/ \E n \in StageNames, k \in KindsFirst, P \in SUBSET DOMAIN tasks,
          dd \in DontDeleteChoices : AddTask(n, k, P, dd)
    \/ \E f \in BOOLEAN : Run(f)
    \/ \E j \in DOMAIN jobAttempts, ok \in BOOLEAN : Complete(j, ok)
    \/ SigInt

\* one session, a clock that moves, and the terminate subcommand of the CLI
NextCli == NextFirst \/ Tick \/ CliTerminate \/ Drained
SpecCli == Init /\ [][NextCli]_vars

\* one session, a clock that moves, and a script that repeats add_stage and
\* finished
NextScript == NextFirst \/ Tick \/ CallFinished \/ \E n \in StageNames : AddStageAgain(n)
SpecScript == Init /\ [][NextScript]_vars

\* one session, with a script that calls run a second time
NextRerun == NextFirst \/ \E f \in BOOLEAN : Rerun(f)
SpecRerun == Init /\ [][NextRerun]_vars

\* Sessions begun by start(restart=True) after the first one.
NextRestart ==
    \/ NextFirst
    \/ \E c \in BOOLEAN, d \in DryRunChoices, g \in DeleteIntermediatesChoices,
          m \in 1..MaxReattempts : StartRestart(c, d, g, m)

SpecRestart == Init /\ [][NextRestart]_vars

\* tags a script may write by hand
TagChoices == TagFree..(TagFree + 1)

\* Task.create with tags the script chose itself
AddTaskTagged(stage, tags) ==
    /\ pc = "started"
    /\ stage \in DOMAIN stages
    /\ stages[stage].order_in_workflow # NULL
    /\ \A n \in DOMAIN stages :
          stages[n].order_in_workflow <= stages[stage].order_in_workflow
    /\ hist.created < MaxTasks
    /\ LET s1 == TaskCreate(St, stage, tags, "plain", FALSE)
       IN  Set(IF Dead(s1) THEN s1 ELSE [s1 EXCEPT !.hist.created = @ + 1])
    /\ last' = NoCompletion

\* Workflow.bulk_save_tasks with a batch of one or two new tasks of a stage
BulkCall == [attempt |-> -3, ok |-> FALSE]

BulkSave(stage, tagseq) ==
    /\ pc = "started"
    /\ stage \in DOMAIN stages
    /\ stages[stage].order_in_workflow # NULL
    /\ \A n \in DOMAIN stages :
          stages[n].order_in_workflow <= stages[stage].order_in_workflow
    /\ hist.created + Len(tagseq) <= MaxTasks
    /\ LET batch == [i \in DOMAIN tagseq |->
                       NewTask(stage, tagseq[i], "plain", FALSE)]
       IN  Set([bulk_save_tasks(St, batch) EXCEPT !.hist.created = @ + Len(tagseq)])
    /\ last' = BulkCall

\* bulk_save_tasks on a batch one of whose steps raises.
BulkSaveRaises(stage, tagseq, step, k) ==
    /\ pc = "started"
    /\ stage \in DOMAIN stages
    /\ stages[stage].order_in_workflow # NULL
    /\ \A n \in DOMAIN stages :
          stages[n].order_in_workflow <= stages[stage].order_in_workflow
    /\ hist.created + Len(tagseq) <= MaxTasks
    /\ k < Len(tagseq)
    /\ LET batch == [i \in DOMAIN tagseq |->
                       NewTask(stage, tagseq[i], "plain", FALSE)]
       IN  Set(bulk_save_tasks_raising(St, batch, step, k))
    /\ last' = BulkCall

NextBulk ==
    \/ NextFirst
    \/ \E n \in StageNames, g \in TagChoices : AddTaskTagged(n, g)
    \/ \E n \in StageNames, g \in TagChoices : BulkSave(n, <<g>>)
    \/ \E n \in StageNames, g \in TagChoices, h \in TagChoices : BulkSave(n, <<g, h>>)
    \/ \E n \in StageNames, g \in TagChoices, h \in TagChoices,
          step \in BulkSteps, k \in 0..1 : BulkSaveRaises(n, <<g, h>>, step, k)

SpecBulk == Init /\ [][NextBulk]_vars

\* One session of a workflow created with delete_intermediates=True: one
\* stage of plain tasks, some of them with dont_delete_output_files.
NextGC ==
    \/ StartCreate(FALSE, TRUE, 1)
    \/ AddStage(1)
    \/ \E P \in SUBSET DOMAIN tasks, dd \in BOOLEAN :
          AddTaskUpTo(MaxTasksGC, 1, "plain", P, dd)
    \/ \E f \in BOOLEAN : Run(f)
    \/ \E j \in DOMAIN jobAttempts, ok \in BOOLEAN : Complete(j, ok)
    \/ SigInt

SpecGC == Init /\ [][NextGC]_vars

\* bulk_save_task_edges called with an edge that runs against the order in
\* which the tasks were created (or from a task to itself): the one way a
\* cycle can get into the persisted graph. At most one such edge is added.
AddBackEdge(parent, child) ==
    /\ pc = "started"
    /\ parent \in DOMAIN tasks /\ child \in DOMAIN tasks
    /\ parent >= child
    /\ \A e \in edges : e[1] < e[2]
    /\ Set(bulk_save_task_edges(St, {<<parent, child>>}))
    /\ last' = NoCompletion

\* One session of a script that may save an edge against the order of creation.
NextCycle ==
    \/ NextFirst
    \/ \E p \in 1..MaxTasks, c \in 1..MaxTasks : AddBackEdge(p, c)

SpecCycle == Init /\ [][NextCycle]_vars

\* kinds of task of a script whose commands may name a TaskFile that does
\* not exist
KindsRefs == {"plain", "unresolved"}

\* One session of such a script.
NextRefs ==
    \/ \E d \in DryRunChoices, g \in DeleteIntermediatesChoices,
          m \in 1..MaxReattempts : StartCreate(d, g, m)
    \/ \E n \in StageNames : AddStage(n)
    \/ \E n \in StageNames, k \in KindsRefs, P \in SUBSET DOMAIN tasks,
          dd \in DontDeleteChoices : AddTask(n, k, P, dd)
    \/ \E f \in BOOLEAN : Run(f)
    \/ \E j \in DOMAIN jobAttempts, ok \in BOOLEAN : Complete(j, ok)
    \/ SigInt

SpecRefs == Init /\ [][NextRefs]_vars

\* The DRM reports a terminal outcome for every job it was handed: the
\* stream of completions yields while an attempt is queued.
CompleteSome == \E j \in DOMAIN jobAttempts, ok \in BOOLEAN : Complete(j, ok)

\* CompleteSome is enabled exactly when run waits and an attempt is queued
\* (the guards of Complete).
CompleteEnabled == pc = "waiting" /\ QueuedAttempts(St) # {}

\* One session under weak fairness of CompleteSome, written out with its
\* enabling condition: either the stream yields again and again, or again
\* and again there is nothing for it to yield.
SpecLive ==
    /\ Init /\ [][NextFirst]_vars
    /\ ([]<>(~CompleteEnabled) \/ []<><<CompleteSome>>_vars)

\* A second workflow of the same store: its row has the next id and its
\* stage a key of its own.
OtherWfId == WfId + 1
OtherStage == MaxStages + 1
StageStatuses == {"no_attempt", "in_progress", "successful"}

\* Workflow.add_stage of the other workflow, with the status its own runs
\* have given the stage so far.
OtherAddStage(status) ==
    /\ NoProcess
    /\ ~wf.exists
    /\ OtherStage \notin DOMAIN stages
    /\ Set([St EXCEPT !.stages = Put(@, OtherStage,
               [workflow |-> OtherWfId, order_in_workflow |-> 1,
                status |-> status, successful |-> (status = "successful"),
                started_on |-> IF status = "no_attempt" THEN NULL ELSE now,
                finished_on |-> IF status = "successful" THEN now ELSE NULL])])
    /\ last' = NoCompletion

NextShared ==
    \/ NextFirst
    \/ \E x \in StageStatuses : OtherAddStage(x)

\* One session of a workflow in a store that holds another workflow's stage.
SpecShared == Init /\ [][NextShared]_vars


\* One session created with or without dry_run, in which the script may call
\* run() a second time on the handle.
NextDry ==
    \/ \E d \in BOOLEAN, m \in 1..MaxReattempts : StartCreate(d, FALSE, m)
    \/ \E n \in StageNames : AddStage(n)
    \/ \E n \in StageNames, k \in KindsFirst, P \in SUBSET DOMAIN tasks :
          AddTask(n, k, P, FALSE)
    \/ \E f \in BOOLEAN : Run(f)
    \/ \E f \in BOOLEAN : Rerun(f)
    \/ \E j \in DOMAIN jobAttempts, ok \in BOOLEAN : Complete(j, ok)
    \/ SigInt

SpecDry == Init /\ [][NextDry]_vars


\* The places inside Workflow._run_task at which the SIGINT handler can run:
\* after task.set_status('in_progress'), after add_jobAttempt, and after
\* submit_job (before the final task.save()).
RunTaskPoints == {"set_status", "add_jobAttempt", "submit_job"}

\* Workflow._run_task of a task that is not NOOP, up to one of these places.
run_task_upto(s, t, point) ==
    LET name == s.tasks[t].stage
        s1 == IF s.stages[name].status \in {"no_attempt", "failed"}
              THEN [StageSetStatus(s, name, "in_progress") EXCEPT
                      !.stages[name].started_on =
                          IF s.stages[name].status = "no_attempt" THEN now ELSE @]
              ELSE s
        s2 == TaskSetStatus(s1, t, "in_progress")
        j == NextAttemptId(s2)
        s3 == add_jobAttempt(s2, t)
    IN  CASE point = "set_status"     -> s2
          [] point = "add_jobAttempt" -> s3
          [] OTHER -> IF s.wf.dry_run THEN s3 ELSE submit_job(s3, j)

InterruptInside == [attempt |-> -4, ok |-> TRUE]

\* SIGINT while the first run_ready_tasks of run() is inside _run_task(t): the
\* ready tasks before t are dispatched, t is dispatched up to the point, and
\* the handler calls terminate(), which exits.
SigIntInRunTask(terminate_on_fail, t, point) ==
    /\ pc = "started"
    /\ LET s1 == [St EXCEPT !.mgr = NewManager(St, terminate_on_fail),
                            !.pc = "waiting"]
           ready == get_ready_tasks(s1)
           s2 == DispatchAll(s1, {u \in ready : u < t})
           s3 == [s2 EXCEPT !.mgr.queued_tasks = @ \cup {t}]
       IN  /\ t \in ready
           /\ ~tasks[t].NOOP
           /\ Set(terminate(run_task_upto(s3, t, point)))
    /\ last' = InterruptInside

NextInside ==
    \/ NextFirst
    \/ \E f \in BOOLEAN, t \in DOMAIN tasks, p \in RunTaskPoints :
          SigIntInRunTask(f, t, p)

\* One session in which SIGINT may also arrive inside _run_task.
SpecInside == Init /\ [][NextInside]_vars


\* ------------------------------------------------------------------ claims
Parents(t) == {e[1] : e \in {x \in edges : x[2] = t}}
Children(t) == {e[2] : e \in {x \in edges : x[1] = t}}
Attempts(t) == TaskAttempts(St, t)
NumAttempts(t) == Cardinality(Attempts(t))
Dispatched(t) == Attempts(t) # {} \/ tasks[t].status # "no_attempt"

\* C1: for every edge (parent, child), the child has no JobAttempt and has not
\* left no_attempt unless the parent has reached successful.
C1_ParentsFirst ==
    \A e \in edges :
        (e[1] \in DOMAIN tasks /\ e[2] \in DOMAIN tasks /\ Dispatched(e[2]))
            => tasks[e[1]].successful

\* a child with a JobAttempt, below a parent that is successful
C1_Witness ==
    \E e \in edges :
        /\ e[1] \in DOMAIN tasks /\ e[2] \in DOMAIN tasks
        /\ Attempts(e[2]) # {}
        /\ tasks[e[1]].successful
        /\ ~tasks[e[1]].NOOP

\* C2: every Task has at most workflow.max_reattempts JobAttempts.
C2_AtMostMaxAttempts ==
    \A t \in DOMAIN tasks : NumAttempts(t) <= wf.max_reattempts

\* C3 as stated: successful <=> status = successful <=> (exactly one successful
\* JobAttempt, or NOOP, or succeed_on_failure with a completed attempt).
HasOneSuccessfulAttempt(t) ==
    Cardinality({j \in Attempts(t) : jobAttempts[j].successful}) = 1
HasTerminalAttempt(t) ==
    \E j \in Attempts(t) : jobAttempts[j].queue_status = "completed"
SuccessGround(t) ==
    \/ HasOneSuccessfulAttempt(t)
    \/ tasks[t].NOOP
    \/ tasks[t].succeed_on_failure /\ HasTerminalAttempt(t)

C3_AsStated ==
    \A t \in DOMAIN tasks :
        /\ tasks[t].successful <=> (tasks[t].status = "successful")
        /\ (tasks[t].status = "successful") <=> SuccessGround(t)

\* C3, amended: successful <=> status = successful, and a successful task is
\* NOOP, or succeed_on_failure with a completed attempt, or has exactly one
\* successful JobAttempt.
C3_Amended ==
    \A t \in DOMAIN tasks :
        /\ tasks[t].successful <=> (tasks[t].status = "successful")
        /\ tasks[t].successful => SuccessGround(t)

\* a plain task made successful by its one successful attempt, next to a
\* succeed_on_failure task made successful by a failed attempt
C3_Witness ==
    \E t, u \in DOMAIN tasks :
        /\ ~tasks[t].NOOP /\ ~tasks[t].succeed_on_failure
        /\ tasks[t].successful /\ HasOneSuccessfulAttempt(t)
        /\ tasks[u].succeed_on_failure /\ tasks[u].successful
        /\ ~HasOneSuccessfulAttempt(u)

\* C4 as stated: a Stage's status is successful iff all its Tasks are
\* successful; failed iff every Task is terminal and one has failed; else
\* in_progress once a Task has started; else no_attempt.
StatusByTasks(n) ==
    LET ts == StageTasks(St, n)
    IN  IF \A t \in ts : tasks[t].status = "successful" THEN "successful"
        ELSE IF \A t \in ts : tasks[t].status \in {"successful", "failed"}
        THEN "failed"
        ELSE IF \E t \in ts : tasks[t].status # "no_attempt" THEN "in_progress"
        ELSE "no_attempt"

C4_AsStated ==
    \A n \in DOMAIN stages :
        StageTasks(St, n) # {} => stages[n].status = StatusByTasks(n)

\* C5 as stated: once a Stage's status is successful, no step changes it.
C5_AsStated ==
    [][\A n \in DOMAIN stages :
          (stages[n].status = "successful" /\ n \in DOMAIN stages')
              => stages'[n].status = "successful"]_vars

\* C5, amended: a Stage whose status is successful keeps it in every step
\* taken while all of its Tasks are successful.
C5_Amended ==
    [][\A n \in DOMAIN stages :
          (/\ stages[n].status = "successful"
           /\ \A t \in StageTasks(St, n) : tasks[t].successful
           /\ n \in DOMAIN stages')
              => stages'[n].status = "successful"]_vars

\* terminate has run and has passed over a successful stage
C5_Witness ==
    /\ pc = "exited"
    /\ \E n, m \in DOMAIN stages :
          /\ stages[n].status = "successful"
          /\ StageTasks(St, n) # {}
          /\ stages[m].status = "failed"

\* the step hands attempt j, queued until now, to the loop of run
Handled(j, ok) ==
    /\ pc = "waiting"
    /\ jobAttempts[j].queue_status = "queued"
    /\ last' = [attempt |-> j, ok |-> ok]

AttemptsAfter(t) == {k \in DOMAIN jobAttempts' : jobAttempts'[k].task = t}
QueuedAfter == {k \in DOMAIN jobAttempts' : jobAttempts'[k].queue_status = "queued"}

\* C6: an unsuccessful attempt of a task that is not succeed_on_failure and
\* has fewer than max_reattempts attempts: exactly one new attempt is
\* submitted for the task, which stays in dag_queue and in_progress.
C6_Retry ==
    [][\A j \in DOMAIN jobAttempts :
          LET t == jobAttempts[j].task
          IN  (/\ Handled(j, FALSE)
               /\ ~tasks[t].succeed_on_failure
               /\ NumAttempts(t) < wf.max_reattempts)
              => /\ Attempts(t) \subseteq AttemptsAfter(t)
                 /\ Cardinality(AttemptsAfter(t) \ Attempts(t)) = 1
                 /\ \A k \in AttemptsAfter(t) \ Attempts(t) :
                       jobAttempts'[k].queue_status = "queued"
                 /\ hist'.submits = hist.submits + 1
                 /\ Cardinality(DOMAIN jobAttempts') = Cardinality(DOMAIN jobAttempts) + 1
                 /\ pc' = "waiting"
                 /\ t \in mgr'.dag_queue
                 /\ tasks'[t].status = "in_progress"]_vars

\* a task on its second attempt after a failed first one
C6_Witness ==
    \E t \in DOMAIN tasks :
        /\ ~tasks[t].succeed_on_failure
        /\ tasks[t].status = "in_progress"
        /\ pc = "waiting"
        /\ t \in mgr.dag_queue
        /\ \E j, k \in Attempts(t) :
              /\ j = last.attempt /\ ~last.ok
              /\ jobAttempts[j].queue_status = "completed"
              /\ ~jobAttempts[j].successful
              /\ jobAttempts[k].queue_status = "queued"

\* C7: an unsuccessful attempt of a task (not succeed_on_failure) that has
\* max_reattempts attempts: no new attempt, the Task is failed, terminate runs
\* iff terminate_on_fail, and otherwise the loop goes on with the stream.
C7_Exhausted ==
    [][\A j \in DOMAIN jobAttempts :
          LET t == jobAttempts[j].task
          IN  (/\ Handled(j, FALSE)
               /\ ~tasks[t].succeed_on_failure
               /\ NumAttempts(t) >= wf.max_reattempts)
              => /\ DOMAIN jobAttempts' = DOMAIN jobAttempts
                 /\ hist'.submits = hist.submits
                 /\ tasks'[t].status = "failed"
                 /\ mgr.terminate_on_fail <=> (pc' = "exited")
                 /\ mgr.terminate_on_fail =>
                       /\ QueuedAfter = {}
                       /\ hist'.kills = hist.kills + Cardinality(QueuedAttempts(St)) - 1
                       /\ wf'.finished_on # NULL
                 /\ ~mgr.terminate_on_fail =>
                       /\ hist'.kills = hist.kills
                       /\ pc' = IF QueuedAfter # {} THEN "waiting" ELSE "returned"
                       /\ \A k \in QueuedAttempts(St) \ {j} : k \in QueuedAfter]_vars

\* a task failed by its last unsuccessful attempt, with max_reattempts = 1 and
\* the loop still waiting for another task's attempt
C7_Witness ==
    /\ wf.max_reattempts = 1
    /\ pc = "waiting"
    /\ ~last.ok
    /\ \E t \in DOMAIN tasks :
          /\ tasks[t].status = "failed"
          /\ Attempts(t) = {last.attempt}
          /\ ~mgr.terminate_on_fail
          /\ QueuedAttempts(St) # {}

\* C8: the completion of the attempt of a succeed_on_failure task, successful
\* or not, makes the task successful and takes it out of dag_queue with no
\* retry: it has that one attempt, and its children whose parents are all
\* successful are dispatched.
C8_SucceedOnFailure ==
    [][\A j \in DOMAIN jobAttempts : \A ok \in BOOLEAN :
          LET t == jobAttempts[j].task
          IN  (Handled(j, ok) /\ tasks[t].succeed_on_failure)
              => /\ tasks'[t].successful
                 /\ tasks'[t].status = "successful"
                 /\ t \notin mgr'.dag_queue
                 /\ AttemptsAfter(t) = {j}
                 /\ pc' \in {"waiting", "returned"}
                 /\ \A c \in Children(t) :
                       (\A p \in Parents(c) : tasks'[p].successful)
                           => /\ tasks'[c].status # "no_attempt"
                              /\ ~tasks'[c].NOOP => \E k \in AttemptsAfter(c) :
                                    jobAttempts'[k].queue_status = "queued"]_vars

\* a succeed_on_failure task successful on a failed attempt, its child queued
C8_Witness ==
    \E t \in DOMAIN tasks :
        /\ tasks[t].succeed_on_failure
        /\ tasks[t].successful
        /\ Attempts(t) = {last.attempt}
        /\ ~last.ok
        /\ ~jobAttempts[last.attempt].successful
        /\ \E c \in Children(t), k \in DOMAIN jobAttempts :
              /\ jobAttempts[k].task = c
              /\ jobAttempts[k].queue_status = "queued"

\* C9: a NOOP task has no JobAttempt; while the controller waits, every NOOP
\* task whose parents are all successful is itself successful and out of
\* dag_queue; a workflow of NOOP tasks alone never waits and never submits.
OnlyNoops ==
    /\ hist.created = Cardinality(DOMAIN tasks)
    /\ \A t \in DOMAIN tasks : tasks[t].NOOP

C9_Noop ==
    /\ \A t \in DOMAIN tasks : tasks[t].NOOP => Attempts(t) = {}
    /\ pc = "waiting" =>
          \A t \in DOMAIN tasks :
              (tasks[t].NOOP /\ \A p \in Parents(t) : tasks[p].successful)
                  => /\ tasks[t].status = "successful"
                     /\ t \notin mgr.dag_queue
    /\ OnlyNoops => (pc # "waiting" /\ hist.submits = 0 /\ jobAttempts = <<>>)

\* a NOOP task below a parent that ran was completed in the pass that found
\* it ready, and its own child went out in that pass too
C9_Witness ==
    /\ pc = "waiting"
    /\ \E t \in DOMAIN tasks :
          /\ tasks[t].NOOP
          /\ tasks[t].status = "successful"
          /\ \E p \in Parents(t) : Attempts(p) # {}
          /\ \E c \in Children(t) : \E k \in Attempts(c) :
                jobAttempts[k].queue_status = "queued"

\* a run of a single NOOP task has returned
C9_WitnessSingle ==
    /\ pc = "returned"
    /\ OnlyNoops
    /\ Cardinality(DOMAIN tasks) = 1
    /\ \A t \in DOMAIN tasks : tasks[t].successful

\* C10: while the controller waits on the stream, every task that is not
\* successful and whose parents are all successful has been dispatched.
C10_FrontierDispatched ==
    pc = "waiting" =>
        \A t \in DOMAIN tasks :
            (~tasks[t].successful /\ \A p \in Parents(t) : tasks[p].successful)
                => /\ t \in mgr.queued_tasks
                   /\ tasks[t].status # "no_attempt"
                   /\ Attempts(t) # {}

\* two children of one successful parent, both queued at the DRM
C10_Witness ==
    /\ pc = "waiting"
    /\ \E a, b, c \in DOMAIN tasks :
          /\ b # c
          /\ a \in Parents(b) /\ a \in Parents(c)
          /\ tasks[a].successful /\ Attempts(a) # {}
          /\ \E j \in Attempts(b) : jobAttempts[j].queue_status = "queued"
          /\ \E k \in Attempts(c) : jobAttempts[k].queue_status = "queued"

\* the first run of a new workflow has returned and no attempt has failed
FirstRunAllSucceeded ==
    /\ pc = "returned"
    /\ hist.sessions = 1
    /\ hist.reruns = 0
    /\ \A j \in DOMAIN jobAttempts : jobAttempts[j].successful

NonNoopTasks == {t \in DOMAIN tasks : ~tasks[t].NOOP}

ExhaustedFatal ==
    \E j \in DOMAIN jobAttempts :
        /\ Handled(j, FALSE)
        /\ ~tasks[jobAttempts[j].task].succeed_on_failure
        /\ NumAttempts(jobAttempts[j].task) >= wf.max_reattempts
        /\ mgr.terminate_on_fail
SigIntHandled == pc \in {"started", "waiting"} /\ last' = Interrupt
CliInvoked == hist'.cli = hist.cli + 1
TerminateRuns == SigIntHandled \/ ExhaustedFatal \/ CliInvoked

\* the attempts that are queued when terminate begins: the stream has already
\* marked the attempt it handed over completed
QueuedAtTerminate == QueuedAttempts(St) \ {last'.attempt}

\* C12: after terminate no JobAttempt is queued; every attempt that was queued
\* when terminate began is completed and not successful, and the Task that
\* owns it is failed.
C12_NoneLeftQueued ==
    [][TerminateRuns =>
          /\ QueuedAfter = {}
          /\ \A k \in QueuedAtTerminate :
                /\ k \in DOMAIN jobAttempts'
                /\ jobAttempts'[k].queue_status = "completed"
                /\ ~jobAttempts'[k].successful
                /\ tasks'[jobAttempts[k].task].status = "failed"
                /\ ~tasks'[jobAttempts[k].task].successful]_vars

\* terminate has killed the queued attempts of two tasks
C12_Witness ==
    /\ hist.kills >= 2
    /\ QueuedAttempts(St) = {}
    /\ \E t, u \in DOMAIN tasks :
          /\ t # u
          /\ tasks[t].status = "failed" /\ tasks[u].status = "failed"
          /\ \E j \in Attempts(t) : jobAttempts[j].queue_status = "completed"
                                     /\ ~jobAttempts[j].successful
          /\ \E k \in Attempts(u) : jobAttempts[k].queue_status = "completed"
                                     /\ ~jobAttempts[k].successful

\* the stage holds a task with an attempt that is queued when terminate begins
StageHit(n) ==
    \E k \in QueuedAtTerminate : jobAttempts[k].task \in StageTasks(St, n)
\* the stage of the task whose last failure made run call terminate
StageOfHandled(n) ==
    /\ last'.attempt \in DOMAIN jobAttempts
    /\ tasks[jobAttempts[last'.attempt].task].stage = n

C14_KillStampExit ==
    [][TerminateRuns =>
          /\ hist'.kills = hist.kills + Cardinality(QueuedAtTerminate)
          /\ \A k \in QueuedAtTerminate :
                jobAttempts'[k].queue_status = "completed"
          /\ wf'.finished_on = now
          /\ wf'.finished_on # NULL
          /\ (SigIntHandled \/ ExhaustedFatal) => pc' = "exited"
          /\ CliInvoked => hist'.cli_exit = 1]_vars

\* the CLI has terminated a workflow whose controller was waiting for two
\* attempts
C14_Witness ==
    /\ hist.cli = 1
    /\ hist.cli_exit = 1
    /\ hist.kills = 2
    /\ wf.finished_on # NULL
    /\ pc = "waiting"
    /\ Cardinality({j \in DOMAIN jobAttempts :
                       jobAttempts[j].queue_status = "completed"}) = 2

\* C15: terminate on a workflow that was already terminated changes no row of
\* the workflow, its stages, its tasks or its attempts.
C15_TerminateIdempotent ==
    [][(pc = "exited" /\ CliInvoked) =>
          /\ wf' = wf
          /\ stages' = stages
          /\ tasks' = tasks
          /\ jobAttempts' = jobAttempts]_vars

\* C16: a second call of finished leaves Workflow.finished_on as the first
\* call stamped it.
C16_FinishedIdempotent ==
    [][(wf.finished_on # NULL /\ hist'.finishes = hist.finishes + 1) =>
          wf'.finished_on = wf.finished_on]_vars

\* C17: a second add_stage(n) creates no Stage and leaves the stages,
\* order_in_workflow included, as the first call left them.
C17_AddStageIdempotent ==
    [][hist'.restaged = hist.restaged + 1 => stages' = stages]_vars

\* ------------------------------------------------------------------ reload
\* A step of Workflow.start that reloads the existing workflow.
ReloadStep == wf.exists /\ hist'.sessions = hist.sessions + 1 /\ pc' = "started"

\* the tasks whose rows a step removes
DeletedTasks == DOMAIN tasks \ DOMAIN tasks'

\* C18: after reload, with or without delete_unsuccessful_stages, every task
\* still in the workflow has successful = true, and every stage still in it
\* has at least one successful task or is itself successful.
C18_AfterReload ==
    [][ReloadStep =>
         /\ \A t \in DOMAIN tasks' : tasks'[t].successful
         /\ \A n \in DOMAIN stages' :
               \/ stages'[n].successful
               \/ \E t \in DOMAIN tasks' :
                     tasks'[t].stage = n /\ tasks'[t].successful]_vars

\* A reload has just pruned the workflow: tasks were deleted, others kept,
\* and no stage has been registered again yet.
C18_Witness ==
    /\ pc = "started"
    /\ hist.sessions >= 2
    /\ DOMAIN tasks # {}
    /\ hist.created > Cardinality(DOMAIN tasks)
    /\ \A n \in DOMAIN stages : stages[n].order_in_workflow = NULL

\* C19: reload deletes every task with successful = false together with its
\* JobAttempts and the TaskEdges where it is parent or child, no remaining row
\* refers to a deleted task, and the rows of the tasks that stay (the task,
\* its attempts, its output, the edges between two such tasks) are as before.
C19_AsStated ==
    [][ReloadStep =>
         /\ \A t \in DOMAIN tasks : ~tasks[t].successful => t \in DeletedTasks
         /\ \A j \in DOMAIN jobAttempts' : jobAttempts'[j].task \in DOMAIN tasks'
         /\ \A e \in edges' : e[1] \in DOMAIN tasks' /\ e[2] \in DOMAIN tasks'
         /\ \A t \in DOMAIN tasks' :
               /\ tasks'[t] = tasks[t]
               /\ disk'[t] = disk[t]
               /\ \A j \in TaskAttempts(St, t) :
                     j \in DOMAIN jobAttempts' /\ jobAttempts'[j] = jobAttempts[j]
         /\ \A e \in edges :
               (e[1] \in DOMAIN tasks' /\ e[2] \in DOMAIN tasks') => e \in edges']_vars

\* C20: after reload every retained stage that lost an unsuccessful task is
\* in_progress and its finished_on is cleared.
C20_AsStated ==
    [][ReloadStep =>
         \A n \in DOMAIN stages' :
            (\E t \in DeletedTasks : tasks[t].stage = n /\ ~tasks[t].successful) =>
               /\ stages'[n].status = "in_progress"
               /\ stages'[n].finished_on = NULL]_vars

\* ------------------------------------------------------- resumed workflows
\* the attempts a step creates
NewAttempts == DOMAIN jobAttempts' \ DOMAIN jobAttempts

\* C21: a run never creates a JobAttempt for a task that was successful when
\* run() started: no step of a run creates an attempt for a task that is
\* already successful, and while run waits no successful task is in dag_queue.
C21_SuccessfulNotRerun ==
    [][/\ \A j \in NewAttempts :
             LET t == jobAttempts'[j].task
             IN  t \in DOMAIN tasks /\ ~tasks[t].successful
       /\ pc' = "waiting" =>
             \A t \in mgr'.dag_queue \cap DOMAIN tasks' : ~tasks'[t].successful]_vars

\* In a later session run() waits on the attempt of a task whose parent was
\* successful before the session began and has got no new attempt.
C21_Witness ==
    /\ pc = "waiting"
    /\ hist.sessions >= 2
    /\ \E e \in edges :
          /\ tasks[e[1]].successful
          /\ e[1] \notin mgr.dag_queue
          /\ e[1] \notin mgr.queued_tasks
          /\ \E j \in QueuedAttempts(St) : jobAttempts[j].task = e[2]

\* the step is a call of start in resume mode
ResumeStep == hist'.sessions = hist.sessions + 1 /\ last' = ResumeMode

\* C22: start in resume mode on an existing workflow succeeds, clears
\* finished_on, sets order_in_workflow of every stage to null and deletes no
\* row; on a name that does not exist it fails and creates nothing.
C22_AsStated ==
    [][ResumeStep =>
         IF wf.exists
         THEN /\ pc' = "started"
              /\ wf'.exists /\ wf'.id = wf.id
              /\ wf'.finished_on = NULL
              /\ DOMAIN stages' = DOMAIN stages
              /\ \A n \in DOMAIN stages' : stages'[n].order_in_workflow = NULL
              /\ tasks' = tasks /\ edges' = edges /\ jobAttempts' = jobAttempts
         ELSE pc' = "crashed" /\ ~wf'.exists]_vars

\* ------------------------------------------------------------------ restart
\* the step is a call of start with restart=True
RestartStep == hist'.sessions = hist.sessions + 1 /\ last'.attempt = RestartMode(TRUE).attempt

C23_WitnessDeclined ==
    /\ last = RestartMode(FALSE)
    /\ pc = "exited"
    /\ DOMAIN tasks # {}

\* ------------------------------------------------------------- unique tags
\* C24: no two tasks of a stage have equal tags, and a call that would add a
\* duplicate fails and persists no task.
C24_AsStated ==
    [][/\ \A t, u \in DOMAIN tasks' :
             (t # u /\ tasks'[t].stage = tasks'[u].stage) =>
                 tasks'[t].tags # tasks'[u].tags
       /\ (pc = "started" /\ pc' = "crashed") => tasks' = tasks]_vars

\* ---------------------------------------------------------- intermediate GC
\* the tasks whose job output directory the garbage collector empties in
\* the step
Emptied ==
    {t \in DOMAIN tasks \cap DOMAIN tasks' :
        /\ ~tasks[t].cleared_output_files
        /\ tasks'[t].cleared_output_files
        /\ ~tasks[t].dont_delete_output_files}

\* C25: with delete_intermediates set, the garbage collector never empties
\* the output directory of a task while one of its children is not yet
\* successful.
C25_AsStated ==
    [][\A t \in Emptied :
          \A e \in edges' : e[1] = t => tasks'[e[2]].successful]_vars

EmptiedByGC(t) ==
    /\ disk[t] /\ ~disk'[t]
    /\ ~\E j \in DOMAIN jobAttempts' \ DOMAIN jobAttempts : jobAttempts'[j].task = t

\* C27: the GC empties a directory and sets cleared_output_files only for
\* intermediate tasks with cleared_output_files and dont_delete_output_files
\* false; a task with dont_delete_output_files never has its output emptied
\* nor cleared_output_files set; without delete_intermediates nothing is
\* cleared.
C27_AsStated ==
    [][\A t \in DOMAIN tasks \cap DOMAIN tasks' :
          /\ (EmptiedByGC(t) \/ (~tasks[t].cleared_output_files
                                  /\ tasks'[t].cleared_output_files)) =>
                /\ wf.delete_intermediates
                /\ ~tasks[t].cleared_output_files
                /\ ~tasks[t].dont_delete_output_files
                /\ \E e \in edges' : e[2] = t
                /\ \E e \in edges' : e[1] = t /\ tasks'[e[2]].status = "successful"
          /\ tasks[t].dont_delete_output_files =>
                ~EmptiedByGC(t) /\ ~tasks'[t].cleared_output_files]_vars

\* ------------------------------------------------------------------- cycles
\* the persisted task graph contains a cycle: some non-empty set of tasks in
\* which every task has a parent in the set
Cyclic ==
    \E S \in (SUBSET DOMAIN tasks) \ {{}} :
        \A c \in S : \E p \in S : <<p, c>> \in edges

\* C28: if the persisted task graph contains a cycle, run() does not return
\* normally with the workflow stamped finished.
C28_AsStated ==
    [][(Cyclic /\ pc \in {"started", "waiting"}) => pc' # "returned"]_vars

\* ------------------------------------------------------ unresolved reference
\* the step ran into a task whose command names a TaskFile that does not
\* exist: _run_task took the task in hand and the controller died
UnresolvedHit ==
    /\ pc \in {"started", "waiting"}
    /\ pc' = "crashed"
    /\ \E t \in DOMAIN tasks :
          /\ tasks[t].unresolved
          /\ tasks[t].status # "in_progress"
          /\ tasks'[t].status = "in_progress"

\* C29: an unresolved TaskFile reference met during run() triggers the
\* terminate protocol: no JobAttempt of the workflow is left queued after
\* the failure.
C29_AsStated ==
    [][UnresolvedHit =>
         \A j \in DOMAIN jobAttempts' : jobAttempts'[j].queue_status # "queued"]_vars

\* -------------------------------------------------------------- termination
\* C30: on an acyclic graph with finite max_reattempts, if the DRM reports an
\* outcome for every submitted job, run() terminates: a run that waits
\* eventually returns after finished() or ends in terminate().
C30_RunTerminates ==
    (pc = "waiting") ~> (pc \in {"returned", "exited"} /\ wf.finished_on # NULL)

\* run() has returned after a task used up a retry: it has two attempts.
C30_Witness ==
    /\ pc = "returned"
    /\ wf.finished_on # NULL
    /\ \E t \in DOMAIN tasks : NumAttempts(t) = 2
    /\ ~Cyclic

\* ------------------------------------------------------------ stage status
\* C31: for every stage the column successful equals (status = successful).
C31_AsStated ==
    \A n \in DOMAIN stages :
        stages[n].successful <=> (stages[n].status = "successful")

\* the stage rows a step keeps
KeptStages == DOMAIN stages \cap DOMAIN stages'

\* C32 as stated: a stage never goes from failed or successful back to
\* in_progress or no_attempt, nor from in_progress back to no_attempt.
C32_AsStated ==
    [][\A n \in KeptStages :
          /\ stages[n].status \in {"failed", "successful"} =>
                stages'[n].status \notin {"in_progress", "no_attempt"}
          /\ stages[n].status = "in_progress" => stages'[n].status # "no_attempt"]_vars

\* C32 amended: a stage never goes back to no_attempt, and never from
\* successful to in_progress; from failed it does go back to in_progress, when
\* one of its tasks is dispatched or a reload resets it.
C32_Amended ==
    [][\A n \in KeptStages :
          /\ stages[n].status # "no_attempt" => stages'[n].status # "no_attempt"
          /\ stages[n].status = "successful" => stages'[n].status # "in_progress"]_vars

\* A stage that had finished is in_progress again: it was failed, and a task
\* of it has been dispatched since.
C32_Witness ==
    \E n \in DOMAIN stages :
        /\ stages[n].status = "in_progress"
        /\ stages[n].finished_on # NULL
        /\ \E j \in QueuedAttempts(St) : tasks[jobAttempts[j].task].stage = n

\* C33: bulk_save_tasks is all-or-nothing. A call one of whose steps raises
\* leaves the Task rows as they were; a call that returns has added exactly
\* the batch, under the ids that follow the previous maximum without a gap,
\* every one of them with its TaskTag rows and its output directory.
BulkStep == pc = "started" /\ last' = BulkCall

C33_AllOrNothing ==
    [][BulkStep =>
          LET new == DOMAIN tasks' \ DOMAIN tasks
              m == SetMax(DOMAIN tasks)
          IN  IF pc' = "crashed"
              THEN tasks' = tasks
              ELSE /\ new # {}
                   /\ new = (m + 1)..(m + Cardinality(new))
                   /\ Cardinality(new) = hist'.created - hist.created
                   /\ \A t \in DOMAIN tasks : tasks'[t] = tasks[t]
                   /\ \A t \in new : tasks'[t].tagged /\ t \in DOMAIN disk']_vars

\* a batch of two failed after the insert and the first directory: the
\* directory is there, the rows are not.
C33_Witness ==
    /\ last = BulkCall
    /\ pc = "crashed"
    /\ \E t \in DOMAIN disk : t \notin DOMAIN tasks

\* C34: when the attempt a completion yields gives its task a final status,
\* the task leaves dag_queue, the full graph carries its final status, and the
\* frontier has been dispatched again.
FinalStep(t) ==
    /\ pc = "waiting"
    /\ last'.attempt \in QueuedAttempts(St)
    /\ jobAttempts[last'.attempt].task = t
    /\ tasks'[t].status \in {"successful", "failed"}
    /\ pc' \in {"waiting", "returned"}

\* the state at the end of the loop body of run for the attempt the step
\* yields, before run looks at the stream again (the manager is a local of
\* run and is gone once run has returned).
LoopBody == Completion(Yielded(St, last'.attempt, last'.ok), last'.attempt)

C34_AsStated ==
    [][\A t \in DOMAIN tasks :
          FinalStep(t) =>
             /\ t \notin LoopBody.mgr.dag_queue
             /\ LoopBody.mgr.status[t] = tasks'[t].status]_vars

\* C34 as the code has it: a task that became successful is completed in the
\* manager and the frontier is dispatched again; a task that failed for good
\* stays in dag_queue with the graph status it had, and nothing is dispatched.
C34_Amended ==
    [][\A t \in DOMAIN tasks :
          FinalStep(t) =>
             IF tasks'[t].status = "successful"
             THEN /\ t \notin LoopBody.mgr.dag_queue
                  /\ LoopBody.mgr.status[t] = "successful"
                  /\ get_ready_tasks(LoopBody) = {}
             ELSE /\ t \in LoopBody.mgr.dag_queue
                  /\ LoopBody.mgr.status[t] = mgr.status[t]
                  /\ LoopBody.mgr.queued_tasks = mgr.queued_tasks
                  /\ jobAttempts' = Yielded(St, last'.attempt, last'.ok).jobAttempts]_vars

\* a task with a child failed for good under terminate_on_fail = FALSE and the
\* run went on.
C34_Witness ==
    /\ pc = "waiting"
    /\ last.attempt \in DOMAIN jobAttempts
    /\ LET t == jobAttempts[last.attempt].task
       IN  /\ t \in DOMAIN tasks
           /\ tasks[t].status = "failed"
           /\ t \in mgr.dag_queue
           /\ \E e \in edges : e[1] = t

\* C35: no stage has status no_attempt while one of its tasks is in_progress,
\* successful or failed; in particular the dispatch of the first task of a
\* stage, NOOP or not, takes the stage out of no_attempt.
C35_AsStated ==
    \A t \in DOMAIN tasks :
        (tasks[t].stage \in DOMAIN stages /\
         tasks[t].status \in {"in_progress", "successful", "failed"})
            => stages[tasks[t].stage].status # "no_attempt"

\* ------------------------------------------------------------ shared store

\* C36: terminate() of a workflow changes rows of that workflow only: the
\* stages of every other workflow of the store keep their status and
\* finished_on.
C36_AsStated ==
    [][(pc # "exited" /\ pc' = "exited") =>
          \A n \in DOMAIN stages :
              stages[n].workflow # wf.id =>
                  /\ stages'[n].status = stages[n].status
                  /\ stages'[n].finished_on = stages[n].finished_on]_vars

\* ------------------------------------------------------------ job attempts

\* C37: a task has at most one JobAttempt that is not completed
\* (not_submitted or queued).
OpenAttempts(t) ==
    {j \in DOMAIN jobAttempts :
        jobAttempts[j].task = t /\ jobAttempts[j].queue_status # "completed"}

C37_AsStated ==
    \A t \in DOMAIN tasks : Cardinality(OpenAttempts(t)) <= 1

\* ------------------------------------------------------------------ dry run

\* C40: in a workflow with dry_run set, submit_job is never called: every
\* attempt is not_submitted, none is queued or completed, and every task
\* that was dispatched (it is not NOOP and has left no_attempt) has one.
C40_DryRunNeverSubmits ==
    (wf.exists /\ wf.dry_run) =>
        /\ hist.submits = 0
        /\ \A j \in DOMAIN jobAttempts :
              jobAttempts[j].queue_status = "not_submitted"
        /\ \A t \in DOMAIN tasks :
              (~tasks[t].NOOP /\ tasks[t].status # "no_attempt") =>
                  \E j \in DOMAIN jobAttempts : jobAttempts[j].task = t

\* a dry run has dispatched a task and returned.
C40_Witness ==
    /\ wf.exists /\ wf.dry_run
    /\ pc = "returned"
    /\ \E j \in DOMAIN jobAttempts :
          /\ jobAttempts[j].queue_status = "not_submitted"
          /\ tasks[jobAttempts[j].task].status = "in_progress"

\* ------------------------------------------------------- SIGINT inside run

\* C38: once terminate has finished after a SIGINT, whenever the signal
\* arrived, no task is in_progress and no attempt is not_submitted or queued.
C38_AsStated ==
    (pc = "exited" /\ last \in {Interrupt, InterruptInside}) =>
        /\ \A t \in DOMAIN tasks : tasks[t].status # "in_progress"
        /\ \A j \in DOMAIN jobAttempts : jobAttempts[j].queue_status = "completed"

\* ------------------------------------------------- run without terminate_on_fail

RECURSIVE Ancestors(_)
Ancestors(t) ==
    LET P == Parents(t) IN P \cup UNION {Ancestors(p) : p \in P}

FailedAncestor(u) ==
    \E a \in Ancestors(u) \cap DOMAIN tasks : tasks[a].status = "failed"

\* C39: in a run with terminate_on_fail = FALSE, a task below a failed task
\* is never dispatched; a completion never ends the run through terminate;
\* the run does end (unless SIGINT ends it), by stamping finished_on, and by
\* then every task that is not below a failed task has been dispatched.
C39_FailureIsContained ==
    /\ [](\A u \in DOMAIN tasks : FailedAncestor(u) => ~Dispatched(u))
    /\ [][(pc = "waiting" /\ ~mgr.terminate_on_fail /\ last' # Interrupt) =>
             /\ pc' \in {"waiting", "returned"}
             /\ pc' = "returned" =>
                   /\ wf'.finished_on = now
                   /\ \A u \in DOMAIN tasks :
                         (~Dispatched(u))' => FailedAncestor(u)']_vars
    /\ (pc = "waiting" /\ ~mgr.terminate_on_fail)
          ~> (pc \in {"returned", "exited"})

\* the run has returned with a failed task, a child of it that was never
\* dispatched, and a task that succeeded with an attempt made after the
\* failed one's last.
C39_Witness ==
    /\ pc = "returned"
    /\ wf.finished_on # NULL
    /\ \E t, d, u \in DOMAIN tasks :
          /\ tasks[t].status = "failed"
          /\ t \in Parents(d)
          /\ tasks[d].status = "no_attempt"
          /\ tasks[u].status = "successful"
          /\ \E j \in Attempts(u) : \A i \in Attempts(t) : i < j

====
